---- MODULE Spec2Model ----
(***************************************************************************)
(* Model of scripts/make_lastfm_banner.py: fetch the recent listens of a   *)
(* Last.fm user, count albums over the most recent listens, select the     *)
(* most played ones and paste their covers into a GRID x GRID quilt.       *)
(*                                                                         *)
(* JSON values are tagged records: None, Str(s), Dict(d), List(l).  A      *)
(* Python str is a sequence of one-character strings, so that strip() and  *)
(* the f-string that joins artist and album are computed, not assumed.     *)
(***************************************************************************)
EXTENDS Integers, Sequences, FiniteSets, TLC

\* ---- Settings (make_lastfm_banner.py:11-18), scaled down for checking ----
\* LAST_N_LISTENS is 180 and GRID is 5 in the script; both are tunables and
\* are kept small here so that every window and every grid can be enumerated.
LAST_N_LISTENS == 6
GRID == 2
TILE == 240
FALLBACK_COLOR == <<18, 18, 18>>
OUT_PATH == "assets/banner.jpg"

\* ---- JSON / Python values ----
None == [tag |-> "None"]
Str(s) == [tag |-> "str", s |-> s]
Dict(d) == [tag |-> "dict", d |-> d]
List(l) == [tag |-> "list", l |-> l]

\* dict.get(k): the value under k, None when the key is missing
Get(d, k) == IF k \in DOMAIN d THEN d[k] ELSE None

\* Python truthiness of an optional str / list: `if url`, `not artist`, `x or []`
Truthy(v) ==
    CASE v.tag = "None" -> FALSE
      [] v.tag = "str" -> v.s # <<>>
      [] v.tag = "list" -> v.l # <<>>
      [] OTHER -> TRUE

IsSpace(c) == c = " "

\* str.strip(): drop leading and trailing whitespace
RECURSIVE LStrip(_)
LStrip(s) == IF s # <<>> /\ IsSpace(Head(s)) THEN LStrip(Tail(s)) ELSE s

RECURSIVE RStrip(_)
RStrip(s) ==
    IF s # <<>> /\ IsSpace(s[Len(s)]) THEN RStrip(SubSeq(s, 1, Len(s) - 1)) ELSE s

Strip(s) == RStrip(LStrip(s))

\* the separator of the f-string at line 82: space, em dash (U+2014), space.
\* The em dash is written "-" here; no other character of the model is one.
SEP == <<" ", "-", " ">>

\* the f-string at line 82: artist, separator, album
JoinKey(artist, album) == artist \o SEP \o album

\* make_lastfm_banner.py:60-65 and 67-72: a dict yields its sub-field, a str
\* yields itself, anything else (missing, other type) yields None
FieldOf(v, sub) ==
    CASE v.tag = "dict" -> Get(v.d, sub)
      [] v.tag = "str" -> v
      [] OTHER -> None

ArtistOf(track) == FieldOf(Get(track, "artist"), "name")
AlbumOf(track) == FieldOf(Get(track, "album"), "#text")

\* safe_album_key without lines 77-80 (the second, post-strip test)
safe_album_key_nostrip(track) ==
    LET artist == ArtistOf(track)
        album == AlbumOf(track)
    IN  IF ~Truthy(artist) \/ ~Truthy(album) THEN None
        ELSE Str(JoinKey(Strip(artist.s), Strip(album.s)))

\* safe_album_key: Str(key) or None
safe_album_key(track) ==
    LET artist == ArtistOf(track)
        album == AlbumOf(track)
    IN  IF ~Truthy(artist) \/ ~Truthy(album) THEN None
        ELSE LET a == Strip(artist.s)
                 al == Strip(album.s)
             IN  IF a = <<>> \/ al = <<>> THEN None
                 ELSE Str(JoinKey(a, al))

\* images = track.get("image", []) or []
ImagesOf(track) ==
    LET v == Get(track, "image")
    IN  IF Truthy(v) THEN v.l ELSE <<>>

\* pick_best_image_url: scan the candidates from the end, first truthy "#text"
RECURSIVE ScanBack(_, _)
ScanBack(images, i) ==
    IF i = 0 THEN None
    ELSE LET url == Get(images[i], "#text")
         IN  IF Truthy(url) THEN url ELSE ScanBack(images, i - 1)

pick_best_image_url(track) == ScanBack(ImagesOf(track), Len(ImagesOf(track)))


\* ---- helpers for Python sequences and dicts ----
Min(a, b) == IF a < b THEN a ELSE b

\* tracks[:n]
Take(s, n) == SubSeq(s, 1, Min(n, Len(s)))

\* position of key in the Counter's insertion order, 0 when absent
RECURSIVE IndexOf(_, _, _)
IndexOf(counts, key, i) ==
    IF i > Len(counts) THEN 0
    ELSE IF counts[i][1] = key THEN i
    ELSE IndexOf(counts, key, i + 1)

\* album_counts[key] += 1: a Counter is a dict, so a new key goes last and a
\* known key keeps its place
Increment(counts, key) ==
    LET i == IndexOf(counts, key, 1)
    IN  IF i = 0 THEN Append(counts, <<key, 1>>)
        ELSE [counts EXCEPT ![i] = <<key, counts[i][2] + 1>>]

\* Counter.most_common(n) is sorted(items, key=count, reverse=True)[:n]; the
\* sort is stable, so an item goes after every item whose count is not smaller
InsertDescUnstable(sorted, e) ==
    LET k == Cardinality({i \in 1..Len(sorted) : sorted[i][2] > e[2]})
    IN  SubSeq(sorted, 1, k) \o <<e>> \o SubSeq(sorted, k + 1, Len(sorted))

InsertDesc(sorted, e) ==
    LET k == Cardinality({i \in 1..Len(sorted) : sorted[i][2] >= e[2]})
    IN  SubSeq(sorted, 1, k) \o <<e>> \o SubSeq(sorted, k + 1, Len(sorted))

RECURSIVE SortDesc(_, _)
SortDesc(items, acc) ==
    IF items = <<>> THEN acc
    ELSE SortDesc(Tail(items), InsertDesc(acc, Head(items)))

most_common(counts, n) == Take(SortDesc(counts, <<>>), n)

\* [k for k, _ in album_counts.most_common(GRID * GRID)]
TopAlbums(counts) ==
    LET mc == most_common(counts, GRID * GRID)
    IN  [i \in 1..Len(mc) |-> mc[i][1]]

\* ---- images ----
W == GRID * TILE
H == GRID * TILE

Solid(size, colour) == [w |-> size, h |-> size, kind |-> "solid", px |-> colour]
Art(size, url) == [w |-> size, h |-> size, kind |-> "art", px |-> url]

\* Image.new("RGB", (W, H), FALLBACK_COLOR), seen one tile-sized cell at a time:
\* the cell whose top-left pixel is <<x, y>> holds what was last pasted there
Cells == {<<c * TILE, r * TILE>> : c \in 0..(GRID - 1), r \in 0..(GRID - 1)}
NewCanvas == [cell \in Cells |-> [kind |-> "solid", px |-> FALLBACK_COLOR]]

\* canvas.paste(tile, (x, y)): what falls outside the canvas is clipped
Paste(cv, tile, x, y) ==
    IF <<x, y>> \in DOMAIN cv
    THEN [cv EXCEPT ![<<x, y>>] = [kind |-> tile.kind, px |-> tile.px]]
    ELSE cv

\* line 135 with % for //
RowOfMod(i) == i % GRID

\* lines 135-138
RowOf(i) == i \div GRID
ColOf(i) == i % GRID
XOf(i) == ColOf(i) * TILE
YOf(i) == RowOf(i) * TILE

\* download_and_fit whose except branch forgets the colour (Image.new's default)
download_and_fit_black(url, tile_size, ok) ==
    IF ok THEN Art(tile_size, url) ELSE Solid(tile_size, <<0, 0, 0>>)

\* download_and_fit: ImageOps.fit gives a tile_size square of the cover; any
\* exception gives the fallback tile.  ok is what the cover host did.
download_and_fit(url, tile_size, ok) ==
    IF ok THEN Art(tile_size, url) ELSE Solid(tile_size, FALLBACK_COLOR)


\* ---- the listens the history service may hold ----
Missing == [tag |-> "missing"]

\* one track object of the JSON body; a Missing field is left out of the dict
MkTrack(artist, album, image) ==
    LET v == [k \in {"artist", "album", "image"} |->
                 CASE k = "artist" -> artist
                   [] k = "album" -> album
                   [] OTHER -> image]
        present == {k \in {"artist", "album", "image"} : v[k] # Missing}
    IN  [k \in present \cup {"name"} |->
            IF k = "name" THEN Str(<<"t">>) ELSE v[k]]

\* one entry of a track's "image" list
Img(size, url) == ("size" :> Str(<<size>>)) @@ ("#text" :> url)
ImgNoText(size) == ("size" :> Str(<<size>>)) @@ ("mbid" :> Str(<<"m">>))

nA == <<"a">>
nPadA == <<" ", "a", " ">>
nBlank == <<" ">>
nASA == <<"a", " ", "-", " ", "a">>

ArtistValues ==
    { Missing, Str(<<>>), Str(nBlank), Str(nPadA),
      Dict("name" :> Str(nA)), Dict("name" :> Str(nASA)),
      Dict("mbid" :> Str(<<"m">>)) }

AlbumValues ==
    { Missing, Str(nBlank), Str(nPadA),
      Dict("#text" :> Str(<<>>)), Dict("#text" :> Str(nA)),
      Dict("#text" :> Str(nASA)), Dict("mbid" :> Str(<<"m">>)) }

CoverSL == List(<<Img("small", Str(<<"s0">>)), Img("large", Str(<<"l0">>))>>)

\* family 1: one or two listens, every shape of artist and album
KeyTracks == {MkTrack(a, al, CoverSL) : a \in ArtistValues, al \in AlbumValues}
KeySnapshots == {<<t>> : t \in KeyTracks} \cup {<<t, u>> : t, u \in KeyTracks}

\* family 2: up to three listens of one album, every shape of the image list
ImageValues ==
    { Missing, List(<<>>),
      List(<<Img("small", Str(<<>>)), Img("large", Str(<<>>))>>),
      List(<<Img("small", Str(<<"s1">>)), Img("large", Str(<<"l1">>))>>),
      List(<<Img("small", Str(<<"s2">>)), Img("large", Str(<<>>))>>),
      List(<<Img("small", Str(<<"s3">>)), ImgNoText("large")>>) }
ArtTracks ==
    {MkTrack(Dict("name" :> Str(nA)), Dict("#text" :> Str(nA)), im) : im \in ImageValues}
ArtSnapshots ==
    {<<t, u>> : t, u \in ArtTracks} \cup {<<t, u, v>> : t, u, v \in ArtTracks}

\* family 3: listens of albums 1, 2, ... of one artist, long enough to overflow
\* the window and the grid; albums 1 and 3 have a cover, the others none
NumAlbums == GRID * GRID + 1
MaxFetched == LAST_N_LISTENS + 1

AlbumTrack(k) ==
    MkTrack(Dict("name" :> Str(nA)),
            Dict("#text" :> Str(<<"x", ToString(k)>>)),
            IF k \in {1, 3}
            THEN List(<<Img("small", Str(<<>>)), Img("large", Str(<<"c", ToString(k)>>))>>)
            ELSE Missing)

MaxOf(s) == IF s = <<>> THEN 0 ELSE CHOOSE m \in {s[i] : i \in 1..Len(s)} :
                                        \A i \in 1..Len(s) : s[i] <= m

\* album numbers in order of first appearance (each new album is the next number)
RECURSIVE Growth(_)
Growth(n) ==
    IF n = 0 THEN {<<>>}
    ELSE LET P == Growth(n - 1)
         IN  P \cup UNION {{Append(s, k) : k \in 1..Min(MaxOf(s) + 1, NumAlbums)} :
                              s \in {q \in P : Len(q) = n - 1}}

GridSnapshots == {[i \in 1..Len(s) |-> AlbumTrack(s[i])] : s \in Growth(MaxFetched)}

Snapshots == KeySnapshots \cup ArtSnapshots \cup GridSnapshots

\* what the service may hold at the next run: the same listens, or listens
\* that differ only in those older than the window
OlderVariants(r) ==
    IF Len(r) < LAST_N_LISTENS THEN {r}
    ELSE {r, Append(Take(r, LAST_N_LISTENS), AlbumTrack(1))}

\* ---- state ----
VARIABLES
    remote,        \* the listens the service returns, most recent first
    run,           \* 1 or 2: which run of the script this is
    pc,            \* "start", "aggregate", "render", "done", "fatal"
    tracks,        \* main: tracks (after tracks[:LAST_N_LISTENS])
    pos,           \* main: number of tracks the loop at line 116 has taken
    album_counts,  \* main: the Counter, <<key, count>> in insertion order
    album_image,   \* main: dict key -> url
    top_albums,    \* main: top_albums
    canvas,        \* main: canvas
    idx,           \* main: idx of the loop at line 134
    pastes,        \* every canvas.paste so far: album, x, y, tile
    requests,      \* every requests.get so far
    sleeps,        \* every time.sleep so far: the album it followed
    outfile,       \* what this run wrote to OUT_PATH
    prev           \* what the first run computed, once it is over

vars == <<remote, run, pc, tracks, pos, album_counts, album_image, top_albums,
          canvas, idx, pastes, requests, sleeps, outfile, prev>>

NoFile == [exists |-> FALSE]
NoImages == [k \in {} |-> None]
NoCanvas == [cell \in {} |-> None]

Fresh ==
    /\ pc = "start"
    /\ tracks = <<>>
    /\ pos = 0
    /\ album_counts = <<>>
    /\ album_image = NoImages
    /\ top_albums = <<>>
    /\ canvas = NoCanvas
    /\ idx = 0
    /\ pastes = <<>>
    /\ requests = <<>>
    /\ sleeps = <<>>
    /\ outfile = NoFile

Init ==
    /\ remote \in Snapshots \cup {<<>>}
    /\ run = 1
    /\ prev = <<>>
    /\ Fresh


\* ---- main ----
HistoryCall == [kind |-> "history", limit |-> 200]
ArtCall(url) == [kind |-> "art", url |-> url]

\* lines 104, 37-38: the history request fails (network, HTTP status, body)
FetchFails ==
    /\ pc = "start"
    /\ requests' = Append(requests, HistoryCall)
    /\ pc' = "fatal"
    /\ UNCHANGED <<remote, run, tracks, pos, album_counts, album_image, top_albums,
                   canvas, idx, pastes, sleeps, outfile, prev>>

\* lines 104-107 without the test of line 106: the run goes on with no track
FetchNoTracksGoesOn ==
    /\ pc = "start"
    /\ remote = <<>>
    /\ requests' = Append(requests, HistoryCall)
    /\ tracks' = <<>>
    /\ pc' = "aggregate"
    /\ UNCHANGED <<remote, run, pos, album_counts, album_image, top_albums,
                   canvas, idx, pastes, sleeps, outfile, prev>>

\* lines 104-107: the service answers with no track: RuntimeError
FetchNoTracks ==
    /\ pc = "start"
    /\ remote = <<>>
    /\ requests' = Append(requests, HistoryCall)
    /\ pc' = "fatal"
    /\ UNCHANGED <<remote, run, tracks, pos, album_counts, album_image, top_albums,
                   canvas, idx, pastes, sleeps, outfile, prev>>

\* lines 104-114 without the slice of line 110
FetchOkWhole ==
    /\ pc = "start"
    /\ remote # <<>>
    /\ requests' = Append(requests, HistoryCall)
    /\ tracks' = remote
    /\ album_counts' = <<>>
    /\ album_image' = NoImages
    /\ pos' = 0
    /\ pc' = "aggregate"
    /\ UNCHANGED <<remote, run, top_albums, canvas, idx, pastes, sleeps, outfile, prev>>

\* lines 104-114: the service answers with tracks; keep the last N listens
FetchOk ==
    /\ pc = "start"
    /\ remote # <<>>
    /\ requests' = Append(requests, HistoryCall)
    /\ tracks' = Take(remote, LAST_N_LISTENS)
    /\ album_counts' = <<>>
    /\ album_image' = NoImages
    /\ pos' = 0
    /\ pc' = "aggregate"
    /\ UNCHANGED <<remote, run, top_albums, canvas, idx, pastes, sleeps, outfile, prev>>

\* lines 116-119: a track with no album key is skipped
AggregateSkip ==
    /\ pc = "aggregate"
    /\ pos < Len(tracks)
    /\ ~Truthy(safe_album_key(tracks[pos + 1]))
    /\ pos' = pos + 1
    /\ UNCHANGED <<remote, run, pc, tracks, album_counts, album_image, top_albums,
                   canvas, idx, pastes, requests, sleeps, outfile, prev>>

\* lines 122-125 without the test of line 122: the last URL wins
RememberLast(images, key, t) ==
    IF Truthy(pick_best_image_url(t))
    THEN (key :> pick_best_image_url(t).s) @@ images
    ELSE images

\* lines 122-125: remember an image URL for a key that has none yet
Remember(images, key, t) ==
    IF key \notin DOMAIN images /\ Truthy(pick_best_image_url(t))
    THEN (key :> pick_best_image_url(t).s) @@ images
    ELSE images

\* lines 116-125: a track with an album key is counted
AggregateCount ==
    /\ pc = "aggregate"
    /\ pos < Len(tracks)
    /\ Truthy(safe_album_key(tracks[pos + 1]))
    /\ LET t == tracks[pos + 1]
           key == safe_album_key(t).s
       IN  /\ album_counts' = Increment(album_counts, key)
           /\ album_image' = Remember(album_image, key, t)
    /\ pos' = pos + 1
    /\ UNCHANGED <<remote, run, pc, tracks, top_albums, canvas, idx, pastes,
                   requests, sleeps, outfile, prev>>

\* lines 127-132: select the albums and create the canvas
SelectTop ==
    /\ pc = "aggregate"
    /\ pos = Len(tracks)
    /\ top_albums' = TopAlbums(album_counts)
    /\ canvas' = NewCanvas
    /\ idx' = 0
    /\ pc' = "render"
    /\ UNCHANGED <<remote, run, tracks, pos, album_counts, album_image, pastes,
                   requests, sleeps, outfile, prev>>

\* lines 134-146 if a failed download were left out and the grid closed up
PasteAndSleepCompact(tile, got) ==
    LET album_key == top_albums[idx + 1]
        at == Len(pastes)
    IN  /\ IF got = "failed"
           THEN UNCHANGED <<canvas, pastes>>
           ELSE /\ canvas' = Paste(canvas, tile, XOf(at), YOf(at))
                /\ pastes' = Append(pastes, [album |-> album_key, x |-> XOf(at),
                                             y |-> YOf(at), tile |-> tile, got |-> got])
        /\ sleeps' = Append(sleeps, album_key)
        /\ idx' = idx + 1

\* lines 134-146: paste the tile of top_albums[idx], sleep, go on; got tells
\* how the tile was made: "none" (no URL), "ok" or "failed" (the download)
PasteAndSleep(tile, got) ==
    LET album_key == top_albums[idx + 1]
    IN  /\ canvas' = Paste(canvas, tile, XOf(idx), YOf(idx))
        /\ pastes' = Append(pastes, [album |-> album_key, x |-> XOf(idx),
                                     y |-> YOf(idx), tile |-> tile, got |-> got])
        /\ sleeps' = Append(sleeps, album_key)
        /\ idx' = idx + 1

\* lines 140-146 if the sleep were inside download_and_fit: no URL, no sleep
RenderNoUrlNoSleep ==
    /\ pc = "render"
    /\ idx < Len(top_albums)
    /\ top_albums[idx + 1] \notin DOMAIN album_image
    /\ canvas' = Paste(canvas, Solid(TILE, FALLBACK_COLOR), XOf(idx), YOf(idx))
    /\ pastes' = Append(pastes, [album |-> top_albums[idx + 1], x |-> XOf(idx),
                                 y |-> YOf(idx), tile |-> Solid(TILE, FALLBACK_COLOR),
                                 got |-> "none"])
    /\ idx' = idx + 1
    /\ UNCHANGED <<remote, run, pc, tracks, pos, album_counts, album_image,
                   top_albums, requests, sleeps, outfile, prev>>

\* lines 140-142: the album has no URL: a fallback tile, no request
RenderNoUrl ==
    /\ pc = "render"
    /\ idx < Len(top_albums)
    /\ top_albums[idx + 1] \notin DOMAIN album_image
    /\ PasteAndSleep(Solid(TILE, FALLBACK_COLOR), "none")
    /\ UNCHANGED <<remote, run, pc, tracks, pos, album_counts, album_image,
                   top_albums, requests, outfile, prev>>

\* lines 140-142, 90-98: the album has a URL; the download succeeds or fails
RenderDownload(ok) ==
    /\ pc = "render"
    /\ idx < Len(top_albums)
    /\ top_albums[idx + 1] \in DOMAIN album_image
    /\ LET url == album_image[top_albums[idx + 1]]
       IN  /\ requests' = Append(requests, ArtCall(url))
           /\ PasteAndSleep(download_and_fit(url, TILE, ok),
                            IF ok THEN "ok" ELSE "failed")
    /\ UNCHANGED <<remote, run, pc, tracks, pos, album_counts, album_image,
                   top_albums, outfile, prev>>

RenderArt == RenderDownload(TRUE)
RenderFallback == RenderDownload(FALSE)

\* lines 148-149: save the canvas
Save ==
    /\ pc = "render"
    /\ idx = Len(top_albums)
    /\ outfile' = [exists |-> TRUE, path |-> OUT_PATH, canvas |-> canvas,
                   albums |-> Len(top_albums)]
    /\ pc' = "done"
    /\ UNCHANGED <<remote, run, tracks, pos, album_counts, album_image, top_albums,
                   canvas, idx, pastes, requests, sleeps, prev>>

\* the script is run again, from scratch, once the first run has saved
Summary ==
    [remote |-> remote, counts |-> album_counts, image |-> album_image,
     top |-> top_albums,
     failed |-> \E i \in 1..Len(pastes) : pastes[i].got = "failed",
     place |-> [i \in 1..Len(pastes) |-> <<pastes[i].album, pastes[i].x, pastes[i].y>>]]

RunAgain ==
    /\ pc = "done"
    /\ run = 1
    /\ run' = 2
    /\ prev' = <<Summary>>
    /\ remote' \in OlderVariants(remote)
    /\ pc' = "start"
    /\ tracks' = <<>>
    /\ pos' = 0
    /\ album_counts' = <<>>
    /\ album_image' = NoImages
    /\ top_albums' = <<>>
    /\ canvas' = NoCanvas
    /\ idx' = 0
    /\ pastes' = <<>>
    /\ requests' = <<>>
    /\ sleeps' = <<>>
    /\ outfile' = NoFile

Next ==
    \/ FetchFails
    \/ FetchNoTracks
    \/ FetchOk
    \/ AggregateSkip
    \/ AggregateCount
    \/ SelectTop
    \/ RenderNoUrl
    \/ RenderArt
    \/ RenderFallback
    \/ Save
    \/ RunAgain

Spec == Init /\ [][Next]_vars


\* ---- what the claims speak of, stated on the listens themselves ----
\* the window: the first min(N, fetched) listens of what the service returned
WindowLen == IF Len(remote) < LAST_N_LISTENS THEN Len(remote) ELSE LAST_N_LISTENS
\* the key of each listen of the window (None where it has none)
WindowKeySeq == [i \in 1..WindowLen |-> safe_album_key(remote[i])]
KeysOf(K) == {K[i].s : i \in {j \in DOMAIN K : K[j].tag = "str"}}
Plays(K, k) == {i \in DOMAIN K : K[i] = Str(k)}
Cnt(K, k) == Cardinality(Plays(K, k))
First(K, k) == CHOOSE i \in Plays(K, k) : \A j \in Plays(K, k) : i <= j
\* k1 is ranked before k2: more plays, or as many and heard first in the window
Before(K, k1, k2) ==
    \/ Cnt(K, k1) > Cnt(K, k2)
    \/ Cnt(K, k1) = Cnt(K, k2) /\ First(K, k1) < First(K, k2)
Selected == {top_albums[i] : i \in 1..Len(top_albums)}

\* C1: the selection holds min(R*R, number of keys) <= min(N, R*R) distinct keys
\* of the window, in descending count with ties in order of first occurrence,
\* and every key left out is ranked after every key selected.
C1_TopSelection ==
    pc = "done" =>
        LET K == WindowKeySeq
        IN  /\ Len(top_albums) = Min(GRID * GRID, Cardinality(KeysOf(K)))
            /\ Len(top_albums) <= Min(LAST_N_LISTENS, GRID * GRID)
            /\ Selected \subseteq KeysOf(K)
            /\ \A i \in 1..(Len(top_albums) - 1) :
                   Before(K, top_albums[i], top_albums[i + 1])
            /\ \A k \in KeysOf(K) \ Selected :
                   Before(K, top_albums[Len(top_albums)], k)

\* C1 witness: more keys than cells, a key that wins on count though heard
\* later, and a tie decided by first occurrence
C1_Witness ==
    /\ pc = "done"
    /\ LET K == WindowKeySeq
       IN  /\ Cardinality(KeysOf(K)) > GRID * GRID
           /\ Len(top_albums) = GRID * GRID
           /\ Cnt(K, top_albums[1]) > Cnt(K, top_albums[2])
           /\ First(K, top_albums[1]) > First(K, top_albums[2])
           /\ Cnt(K, top_albums[2]) = Cnt(K, top_albums[3])


\* an artist or album that is missing, or empty once trimmed
Blank(v) == v.tag # "str" \/ \A i \in 1..Len(v.s) : v.s[i] = " "
NoAlbumIdentity(t) == Blank(ArtistOf(t)) \/ Blank(AlbumOf(t))

RECURSIVE SumCounts(_)
SumCounts(counts) ==
    IF counts = <<>> THEN 0 ELSE Head(counts)[2] + SumCounts(Tail(counts))

\* C2: a listen whose artist or album is missing or empty after trimming is
\* never counted: the counts add up to the listens that have both, no URL is
\* recorded but for a counted key, the loop skips such a listen and goes on,
\* and the run never fails while aggregating.
C2_BlankNeverCounted ==
    /\ pc = "aggregate" =>
          /\ SumCounts(album_counts) =
                 Cardinality({i \in 1..pos : ~NoAlbumIdentity(tracks[i])})
          /\ DOMAIN album_image \subseteq {album_counts[i][1] : i \in 1..Len(album_counts)}
          /\ (pos < Len(tracks) /\ NoAlbumIdentity(tracks[pos + 1])) =>
                 (ENABLED AggregateSkip /\ ~ENABLED AggregateCount)
    /\ pc = "fatal" => (tracks = <<>> /\ pos = 0 /\ album_counts = <<>>)

\* C2 witness: the run is over, it met an artist made of spaces only and a
\* listen with no album, and counted the listen that followed
C2_Witness ==
    /\ pc = "done"
    /\ Len(tracks) = 2
    /\ ArtistOf(tracks[1]).tag = "str"
    /\ ArtistOf(tracks[1]).s = <<" ">>
    /\ ~Blank(AlbumOf(tracks[1]))
    /\ ~NoAlbumIdentity(tracks[2])
    /\ SumCounts(album_counts) = 1

FallbackTile == [w |-> TILE, h |-> TILE, kind |-> "solid", px |-> FALLBACK_COLOR]

\* C3: an album with no URL, or whose download fails, gets the TILE x TILE
\* fallback tile at its own position; the failure stops nothing: rendering can
\* always go on to the next album or to the save, and the run ends saved.
C3_FallbackTile ==
    /\ \A i \in 1..Len(pastes) :
           /\ pastes[i].album = top_albums[i]
           /\ (pastes[i].got = "none") = (top_albums[i] \notin DOMAIN album_image)
           /\ pastes[i].got \in {"none", "failed"} =>
                  /\ pastes[i].tile = FallbackTile
                  /\ <<pastes[i].x, pastes[i].y>> \in DOMAIN canvas
                  /\ canvas[<<pastes[i].x, pastes[i].y>>] =
                         [kind |-> "solid", px |-> FALLBACK_COLOR]
    /\ pc = "fatal" => pastes = <<>>
    /\ pc = "render" => ENABLED (RenderNoUrl \/ RenderArt \/ RenderFallback \/ Save)
    /\ pc = "done" => (Len(pastes) = Len(top_albums) /\ outfile.exists)

\* C3 witness: a saved run in which a download failed, an album had no URL,
\* and an album after both got its cover
C3_Witness ==
    /\ pc = "done"
    /\ outfile.exists
    /\ \E i, j, k \in 1..Len(pastes) :
           /\ i < k /\ j < k
           /\ pastes[i].got = "failed"
           /\ pastes[j].got = "none"
           /\ pastes[k].got = "ok"

\* C4: the file is written only by a run whose history call returned at least
\* one listen and whose canvas is complete, and that run ends there; a run
\* that ends in a fatal error made the history call, nothing else, and wrote
\* no file.
C4_AllOrNothing ==
    /\ outfile.exists =>
           /\ pc = "done"
           /\ remote # <<>>
           /\ tracks # <<>>
           /\ Len(pastes) = Len(top_albums)
           /\ outfile.canvas = canvas
    /\ pc = "done" => outfile.exists
    /\ pc = "fatal" =>
           /\ ~outfile.exists
           /\ requests = <<HistoryCall>>
           /\ pastes = <<>>
           /\ ~ENABLED Next

\* C4 witness: the service returned no listen and the run ended fatally
C4_Witness ==
    /\ pc = "fatal"
    /\ remote = <<>>
    /\ requests = <<HistoryCall>>
    /\ ~outfile.exists

\* an entry of the image list with a non-empty URL
HasText(item) ==
    /\ "#text" \in DOMAIN item
    /\ item["#text"].tag = "str"
    /\ item["#text"].s # <<>>
UrlEntries(t) == {j \in 1..Len(ImagesOf(t)) : HasText(ImagesOf(t)[j])}
\* the URL of the last entry that has one
LastUrl(t) ==
    LET j == CHOOSE m \in UrlEntries(t) : \A n \in UrlEntries(t) : n <= m
    IN  ImagesOf(t)[j]["#text"].s

\* C5: the URL recorded for a key is the last non-empty URL of the first
\* listen of that key that has any; a key none of whose listens has a URL has
\* none recorded.  (The first such listen never changes as the loop advances.)
C5_FirstUrlKept ==
    pc \in {"aggregate", "done"} =>
        LET K == [i \in 1..pos |-> safe_album_key(tracks[i])]
        IN  /\ DOMAIN album_image \subseteq KeysOf(K)
            /\ \A k \in KeysOf(K) :
                   LET src == {i \in Plays(K, k) : UrlEntries(tracks[i]) # {}}
                   IN  IF src = {} THEN k \notin DOMAIN album_image
                       ELSE /\ k \in DOMAIN album_image
                            /\ album_image[k] =
                                   LastUrl(tracks[CHOOSE i \in src : \A j \in src : i <= j])

\* C5 witness: three listens of one album; the first has no URL, the second
\* has a small one only, the third a different one, and the second's is kept
C5_Witness ==
    /\ pc = "done"
    /\ Len(tracks) = 3
    /\ Len(album_counts) = 1
    /\ UrlEntries(tracks[1]) = {}
    /\ UrlEntries(tracks[2]) = {1}
    /\ UrlEntries(tracks[3]) = {1, 2}
    /\ album_image[album_counts[1][1]] = LastUrl(tracks[2])
    /\ LastUrl(tracks[2]) # LastUrl(tracks[3])


\* the cell of the album at selection index i (0-based): row i / R, column i mod R
CellAt(i) == <<(i % GRID) * TILE, (i \div GRID) * TILE>>
AllCells ==
    {<<c * TILE, r * TILE>> : c \in 0..(GRID - 1), r \in 0..(GRID - 1)}

\* C6: in the saved canvas all R x R cells hold a tile or the fallback colour;
\* the album at index i is pasted at row i / R, column i mod R, inside the
\* canvas, no two albums share a cell, the cell shows the album's tile, and the
\* cells with no album hold the fallback colour.
C6_GridPlacement ==
    outfile.exists =>
        LET cv == outfile.canvas
            n == Len(top_albums)
        IN  /\ DOMAIN cv = AllCells
            /\ \A cell \in AllCells : cv[cell].kind \in {"art", "solid"}
            /\ Len(pastes) = n
            /\ n <= GRID * GRID
            /\ \A i \in 1..n :
                   /\ pastes[i].album = top_albums[i]
                   /\ <<pastes[i].x, pastes[i].y>> = CellAt(i - 1)
                   /\ pastes[i].x >= 0 /\ pastes[i].x + pastes[i].tile.w <= W
                   /\ pastes[i].y >= 0 /\ pastes[i].y + pastes[i].tile.h <= H
                   /\ CellAt(i - 1) \in AllCells
                   /\ cv[CellAt(i - 1)] =
                          [kind |-> pastes[i].tile.kind, px |-> pastes[i].tile.px]
            /\ \A i, j \in 1..n : i # j => CellAt(i - 1) # CellAt(j - 1)
            /\ \A cell \in AllCells \ {CellAt(i - 1) : i \in 1..n} :
                   cv[cell] = [kind |-> "solid", px |-> FALLBACK_COLOR]

\* C6 witness: a saved canvas with albums in more than one row, a cover among
\* them, and a cell left to the fallback colour
C6_Witness ==
    /\ outfile.exists
    /\ Len(top_albums) > GRID
    /\ Len(top_albums) < GRID * GRID
    /\ \E i \in 1..Len(pastes) : pastes[i].got = "ok" /\ pastes[i].y > 0

IsArtCall(r) == r.kind = "art"
HasUrlRecorded(k) == k \in DOMAIN album_image

\* C7 as claimed: one artwork request per selected album
C7_OneCallPerAlbum ==
    pc = "done" =>
        /\ Len(SelectSeq(requests, IsArtCall)) = Len(top_albums)
        /\ sleeps = top_albums

\* C7 as amended: the history call is the first request and the only one of its
\* kind; the artwork requests are, in selection order, those of the selected
\* albums handled so far that have a recorded URL (an album with none gets no
\* request); and there is one sleep per album handled, whatever its tile.
C7_Sequential ==
    /\ pc = "start" => (requests = <<>> /\ sleeps = <<>>)
    /\ pc \in {"aggregate", "fatal"} => (requests = <<HistoryCall>> /\ sleeps = <<>>)
    /\ pc \in {"render", "done"} =>
           LET handled == SubSeq(top_albums, 1, idx)
               withUrl == SelectSeq(handled, HasUrlRecorded)
           IN  /\ requests # <<>>
               /\ requests[1] = HistoryCall
               /\ Len(requests) = 1 + Len(withUrl)
               /\ \A i \in 1..Len(withUrl) :
                      requests[i + 1] = ArtCall(album_image[withUrl[i]])
               /\ sleeps = handled
    /\ pc = "done" => idx = Len(top_albums)

\* C7 witness: a finished run with an album without URL between two albums
\* with one, the first of which failed to download
C7_Witness ==
    /\ pc = "done"
    /\ Len(pastes) >= 3
    /\ pastes[1].got = "failed"
    /\ pastes[2].got = "none"
    /\ pastes[3].got = "ok"
    /\ Len(sleeps) = Len(top_albums)
    /\ Len(requests) < 1 + Len(top_albums)

\* the first min(N, length) listens of a fetched list
FirstN(r) ==
    [i \in 1..(IF Len(r) < LAST_N_LISTENS THEN Len(r) ELSE LAST_N_LISTENS) |-> r[i]]

\* C8: only the first min(N, fetched) listens are aggregated, so a run on a
\* list that agrees with the first run's on its first N listens ends with the
\* same counts, the same recorded URLs and the same selection.
C8_WindowOnly ==
    /\ pc \in {"aggregate", "render", "done"} =>
           /\ tracks = FirstN(remote)
           /\ SumCounts(album_counts) <= LAST_N_LISTENS
    /\ (run = 2 /\ pc = "done" /\ FirstN(remote) = FirstN(prev[1].remote)) =>
           /\ album_counts = prev[1].counts
           /\ album_image = prev[1].image
           /\ top_albums = prev[1].top

\* C8 witness: the second run is over; both lists are longer than the window
\* and differ in the listen beyond it
C8_Witness ==
    /\ run = 2
    /\ pc = "done"
    /\ Len(remote) > LAST_N_LISTENS
    /\ Len(prev[1].remote) > LAST_N_LISTENS
    /\ remote # prev[1].remote
    /\ safe_album_key(remote[Len(remote)]) # safe_album_key(prev[1].remote[Len(remote)])
    /\ album_counts = prev[1].counts

Placement == [i \in 1..Len(pastes) |-> <<pastes[i].album, pastes[i].x, pastes[i].y>>]

\* C9: a second run on the same listens ends with the same selection and the
\* same album at the same cell, whatever the downloads did in either run.
C9_Idempotent ==
    (run = 2 /\ pc = "done" /\ remote = prev[1].remote) =>
        /\ top_albums = prev[1].top
        /\ Placement = prev[1].place

\* C9 witness: the same listens twice; no download failed in the first run,
\* one did in the second, and an album comes after it
C9_Witness ==
    /\ run = 2
    /\ pc = "done"
    /\ remote = prev[1].remote
    /\ ~prev[1].failed
    /\ \E i \in 1..(Len(pastes) - 1) : pastes[i].got = "failed"

\* the text between the first and the last character that is not a space
Trimmed(s) ==
    LET ns == {i \in 1..Len(s) : s[i] # " "}
    IN  IF ns = {} THEN <<>>
        ELSE SubSeq(s, CHOOSE i \in ns : \A j \in ns : i <= j,
                       CHOOSE i \in ns : \A j \in ns : j <= i)
Identity(t) == <<Trimmed(ArtistOf(t).s), Trimmed(AlbumOf(t).s)>>

\* C10 as claimed: two counted listens share a key exactly when their trimmed
\* artists are equal and their trimmed albums are equal, so there are as many
\* counted keys as distinct (artist, album) pairs.
C10_FaithfulKey ==
    pc \in {"aggregate", "done"} =>
        LET counted == {i \in 1..pos : ~NoAlbumIdentity(tracks[i])}
        IN  /\ \A i, j \in counted :
                   (safe_album_key(tracks[i]) = safe_album_key(tracks[j]))
                       <=> (Identity(tracks[i]) = Identity(tracks[j]))
            /\ Len(album_counts) = Cardinality({Identity(tracks[i]) : i \in counted})

====
